---------------------------- MODULE Spec2Model ----------------------------
(***************************************************************************)
(* A model of the `unfold` crate (src/src/lib.rs) and of its example       *)
(* client (src/examples/square_root.rs).                                   *)
(*                                                                         *)
(* The crate defines the endless iterator Unfold<T, F> and four front-ends *)
(* (unfold, unfold_vector, unfold_nth, unfold_count) that compose it with  *)
(* the standard adapters Iterator::take, ::collect, ::last and             *)
(* Option::unwrap.  The example composes unfold_count with                 *)
(* Iterator::take_while and ::last.                                        *)
(*                                                                         *)
(* Iterator objects are records; every `next` is an operator that returns  *)
(* the outcome of the call together with the object after the call:        *)
(*     [panic |-> FALSE, ret |-> <Option>, self |-> <object after>]        *)
(*     [panic |-> TRUE, why |-> <reason>,  self |-> <object at the panic>] *)
(***************************************************************************)
EXTENDS Integers, Sequences, FiniteSets

VARIABLES
    call,      \* the entry point exercised and its arguments
    iter,      \* the iterator object held by the caller (unfold, unfold_count)
    out,       \* what the caller's pulls on iter returned so far, in order
    result,    \* the outcome of a front-end function call
    pc,        \* "running" | "start" | "returned" | "panicked"
    pulls      \* number of completed pulls on iter

vars == <<call, iter, out, result, pc, pulls>>

---------------------------------------------------------------------------
(* Bounds of the model.                                                    *)

\* T is instantiated with an unsigned integer of Bits bits.
Bits == 8
\* Largest len / index / count argument.
MaxLen == 4

Modulus == 2 ^ Bits
MaxT == Modulus - 1
\* Pulls a caller makes on an iterator it holds: past exhaustion, twice.
MaxPulls == MaxLen + 2

---------------------------------------------------------------------------
(* Natural numbers of any size, for the 53-bit significands of f64 and     *)
(* their 106-bit products: little-endian sequences of limbs in 0..Base-1   *)
(* with no leading zero limb; <<>> is zero.                                *)

Base == 2 ^ 15

Limb(a, i) == IF i <= Len(a) THEN a[i] ELSE 0

\* The position of the highest non-zero limb of a, 0 if there is none.
NatTop(a) ==
    CHOOSE n \in 0..Len(a) :
        /\ n = 0 \/ a[n] # 0
        /\ \A j \in (n + 1)..Len(a) : a[j] = 0

NatNorm(a) == SubSeq(a, 1, NatTop(a))

RECURSIVE NatFromInt(_)
NatFromInt(k) == IF k = 0 THEN <<>> ELSE <<k % Base>> \o NatFromInt(k \div Base)

\* Whether a + b carries into limb i: a limb below i overflows and every
\* limb between passes the carry on.
NatCarry(a, b, i) ==
    \E k \in 1..(i - 1) :
        /\ Limb(a, k) + Limb(b, k) >= Base
        /\ \A j \in (k + 1)..(i - 1) : Limb(a, j) + Limb(b, j) = Base - 1

NatMaxLen(a, b) == IF Len(a) > Len(b) THEN Len(a) ELSE Len(b)

NatAdd(a, b) ==
    NatNorm([i \in 1..(NatMaxLen(a, b) + 1) |->
               (Limb(a, i) + Limb(b, i) + (IF NatCarry(a, b, i) THEN 1 ELSE 0))
                   % Base])

\* Whether a - b borrows from limb i: the limbs of a below i are less than
\* those of b.
NatBorrow(a, b, i) ==
    \E k \in 1..(i - 1) :
        /\ a[k] < Limb(b, k)
        /\ \A j \in (k + 1)..(i - 1) : a[j] = Limb(b, j)

\* a - b, for a >= b
NatSub(a, b) ==
    NatNorm([i \in 1..Len(a) |->
               (a[i] - Limb(b, i) - (IF NatBorrow(a, b, i) THEN 1 ELSE 0)) % Base])

\* a < b
NatLess(a, b) ==
    \/ Len(a) < Len(b)
    \/ /\ Len(a) = Len(b)
       /\ \E i \in 1..Len(a) :
              a[i] < b[i] /\ \A j \in (i + 1)..Len(a) : a[j] = b[j]

\* -1, 0, 1 as a < b, a = b, a > b
NatCmp(a, b) == IF NatLess(a, b) THEN -1 ELSE IF NatLess(b, a) THEN 1 ELSE 0

\* a * d, for a limb d: the low halves of the limb products plus their
\* high halves one limb up.
NatMulSmall(a, d) ==
    NatAdd(NatNorm([i \in 1..Len(a) |-> (a[i] * d) % Base]),
           NatNorm([i \in 1..(Len(a) + 1) |->
                      IF i = 1 THEN 0 ELSE (a[i - 1] * d) \div Base]))

RECURSIVE NatMul(_, _)
NatMul(a, b) ==
    IF b = <<>> THEN <<>>
    ELSE NatAdd(NatMulSmall(a, Head(b)), NatNorm(<<0>> \o NatMul(a, Tail(b))))

\* the number of significant bits of k < 2^30
IntBitLen(k) ==
    CHOOSE n \in 0..30 : k < 2 ^ n /\ (n = 0 \/ k >= 2 ^ (n - 1))

LimbBits == IntBitLen(Base) - 1

\* the number of significant bits of a
NatBitLen(a) ==
    IF a = <<>> THEN 0 ELSE LimbBits * (Len(a) - 1) + IntBitLen(a[Len(a)])

\* bit i of a, bit 0 the lowest
NatBit(a, i) == (Limb(a, i \div LimbBits + 1) \div 2 ^ (i % LimbBits)) % 2

\* a * 2^k
NatShl(a, k) ==
    IF a = <<>> THEN <<>>
    ELSE [i \in 1..(k \div LimbBits) |-> 0] \o NatMulSmall(a, 2 ^ (k % LimbBits))

\* a \div 2^k
NatShr(a, k) ==
    LET q == k \div LimbBits
        r == k % LimbBits
        b == SubSeq(a, q + 1, Len(a))
    IN  NatNorm([i \in 1..Len(b) |->
                   (b[i] \div 2 ^ r) + (Limb(b, i + 1) % 2 ^ r) * 2 ^ (LimbBits - r)])

\* Long division by limbs.  The divisor b is normalised (its top limb is
\* at least Base / 2), so that the quotient of the two top limbs of the
\* running remainder rr < b * Base by the top limb of b is the quotient
\* digit or at most two above it.
NatDivEstimate(b, rr) ==
    IF Limb(rr, Len(b) + 1) >= b[Len(b)] THEN Base - 1
    ELSE (Limb(rr, Len(b) + 1) * Base + Limb(rr, Len(b))) \div b[Len(b)]

RECURSIVE NatDivFix(_, _, _, _)
\* The digit d <= qh with d * b <= rr, and rr - d * b; p is qh * b.
NatDivFix(b, rr, qh, p) ==
    IF NatLess(rr, p) THEN NatDivFix(b, rr, qh - 1, NatSub(p, b))
    ELSE [d |-> qh, r |-> NatSub(rr, p)]

NatDivDigit(b, rr, qh) == NatDivFix(b, rr, qh, NatMulSmall(b, qh))

\* The quotient q extended by the digit dr.d, with the remainder dr.r.
NatDivPush(q, dr) == [q |-> NatNorm(<<dr.d>> \o q), r |-> dr.r]

\* qr, the quotient and remainder of the limbs of the dividend above
\* limb d, extended by d.
NatDivBring(b, d, qr) ==
    IF qr.r = <<>> /\ d = 0 THEN [q |-> NatNorm(<<0>> \o qr.q), r |-> <<>>]
    ELSE NatDivPush(qr.q, NatDivDigit(b, NatNorm(<<d>> \o qr.r),
                                      NatDivEstimate(b, NatNorm(<<d>> \o qr.r))))

RECURSIVE NatDivFrom(_, _, _)
\* The quotient and remainder by b of limbs j and above of a; the top
\* Len(b) - 1 limbs of a are less than b.
NatDivFrom(a, b, j) ==
    IF j > Len(a) - (Len(b) - 1)
    THEN [q |-> <<>>, r |-> NatNorm(SubSeq(a, j, Len(a)))]
    ELSE NatDivBring(b, a[j], NatDivFrom(a, b, j + 1))

NatDivUnshift(qr, s) == [q |-> qr.q, r |-> NatShr(qr.r, s)]

NatDivShifted(a, b, s) ==
    NatDivUnshift(NatDivFrom(NatShl(a, s), NatShl(b, s), 1), s)

\* [q, r] with a = q * b + r and r < b, for b > 0
NatDivMod(a, b) == NatDivShifted(a, b, LimbBits - IntBitLen(b[Len(b)]))

---------------------------------------------------------------------------
(* f64, the T of the example.  A finite value is [neg, m, e] and stands    *)
(* for (-1)^neg * m * 2^e, with m either zero or of exactly SigBits bits.  *)
(* Operations round to nearest, ties to even, as IEEE 754 binary64 does.   *)
(* Infinities, NaN, subnormals and -0.0 are not modelled: the magnitudes   *)
(* the example reaches are far from them.                                  *)

SigBits == 53

F64Zero == [neg |-> FALSE, m |-> <<>>, e |-> 0]

\* [neg, k, e] with a significand k of SigBits or, after a carry out of
\* rounding up, SigBits + 1 bits.
F64Pack(neg, k, e) ==
    IF NatBitLen(k) > SigBits
    THEN [neg |-> neg, m |-> NatShr(k, 1), e |-> e + 1]
    ELSE [neg |-> neg, m |-> k, e |-> e]

\* Whether dropping the low d > 0 bits of m (followed, if sticky, by a
\* non-zero fraction) rounds up: more than half, or half and the kept part odd.
RoundsUp(m, d, sticky) ==
    /\ NatBit(m, d - 1) = 1
    /\ \/ sticky
       \/ \E i \in 0..(d - 2) : NatBit(m, i) = 1
       \/ NatBit(m, d) = 1

\* The f64 nearest to (-1)^neg * (m + s) * 2^e, where 0 < s < 1 if sticky
\* and s = 0 otherwise; with sticky, m has more than SigBits bits.
F64Round(neg, m, e, sticky) ==
    LET d == NatBitLen(m) - SigBits
    IN  IF m = <<>> THEN F64Zero
        ELSE IF d <= 0 THEN [neg |-> neg, m |-> NatShl(m, -d), e |-> e + d]
        ELSE IF RoundsUp(m, d, sticky)
        THEN F64Pack(neg, NatAdd(NatShr(m, d), <<1>>), e + d)
        ELSE F64Pack(neg, NatShr(m, d), e + d)

\* k as f64, for an integer k
F64FromInt(k) == F64Round(k < 0, NatFromInt(IF k < 0 THEN -k ELSE k), 0, FALSE)

F64Neg(a) == IF a.m = <<>> THEN a ELSE [a EXCEPT !.neg = ~a.neg]

F64Abs(a) == [a EXCEPT !.neg = FALSE]

\* a * b
F64Mul(a, b) ==
    IF a.m = <<>> \/ b.m = <<>> THEN F64Zero
    ELSE F64Round(a.neg # b.neg, NatMul(a.m, b.m), a.e + b.e, FALSE)

\* a + b
F64Add(a, b) ==
    IF a.m = <<>> THEN b
    ELSE IF b.m = <<>> THEN a
    ELSE LET e == IF a.e < b.e THEN a.e ELSE b.e
             ma == NatShl(a.m, a.e - e)
             mb == NatShl(b.m, b.e - e)
             c == NatCmp(ma, mb)
         IN  IF a.neg = b.neg THEN F64Round(a.neg, NatAdd(ma, mb), e, FALSE)
             ELSE IF c = 0 THEN F64Zero
             ELSE IF c > 0 THEN F64Round(a.neg, NatSub(ma, mb), e, FALSE)
             ELSE F64Round(b.neg, NatSub(mb, ma), e, FALSE)

\* a - b
F64Sub(a, b) == F64Add(a, F64Neg(b))

\* The quotient of the significands, qr, as f64.
F64Quotient(neg, qr, e) == F64Round(neg, qr.q, e, qr.r # <<>>)

\* a / b, for b # 0
F64Div(a, b) ==
    IF a.m = <<>> THEN F64Zero
    ELSE F64Quotient(a.neg # b.neg, NatDivMod(NatShl(a.m, SigBits + 3), b.m),
                     a.e - b.e - (SigBits + 3))

\* a < b
F64Lt(a, b) ==
    IF a.neg # b.neg THEN a.neg
    ELSE IF a.m = <<>> \/ b.m = <<>> THEN (IF a.neg THEN a.m # <<>> ELSE b.m # <<>>)
    ELSE LET less == \/ a.e < b.e
                     \/ a.e = b.e /\ NatCmp(a.m, b.m) < 0
             more == \/ a.e > b.e
                     \/ a.e = b.e /\ NatCmp(a.m, b.m) > 0
         IN  IF a.neg THEN more ELSE less

\* a > b
F64Gt(a, b) == F64Lt(b, a)

---------------------------------------------------------------------------
(* Option<T>                                                               *)

None == [some |-> FALSE]
Some(v) == [some |-> TRUE, val |-> v]

---------------------------------------------------------------------------
(* The closures F: Fn(T) -> T                                              *)
(*                                                                         *)
(* A closure is [op, checks]: its body and whether the build that compiled *)
(* it has overflow checks on (debug: arithmetic overflow panics) or off    *)
(* (release: it wraps modulo 2^Bits).                                      *)

\* The closure bodies used in the crate's docs and tests, over the integers.
IntOp(op, x) ==
    CASE op = "inc"  -> x + 1      \* |x| x + 1
      [] op = "inc2" -> x + 2      \* |x| x + 2
      [] op = "dbl"  -> 2 * x      \* |x| 2 * x
      [] op = "dec"  -> x - 1      \* |x| x - 1

\* The example's closure over f64, capturing n:
\* |x| ((x * x) + n) / (2.0 * x)
NewtonStep(n, x) ==
    F64Div(F64Add(F64Mul(x, x), n), F64Mul(F64FromInt(2), x))

\* (self.func)(x): the value, or a panic on overflow under overflow checks.
Call(func, x) ==
    IF func.op = "newton" THEN [panic |-> FALSE, val |-> NewtonStep(func.n, x)]
    ELSE LET y == IntOp(func.op, x)
         IN  IF y \in 0..MaxT THEN [panic |-> FALSE, val |-> y]
             ELSE IF func.checks THEN [panic |-> TRUE, why |-> "overflow"]
             ELSE [panic |-> FALSE, val |-> y % Modulus]

\* Faulty variant of Tolerance (sensitivity of C8): a tolerance of 1.0.
ToleranceCoarse == F64FromInt(1)

\* The f64 literal 1e-8: the f64 nearest to 1 / 10^8.
Tolerance == F64Div(F64FromInt(1), F64FromInt(10 ^ 8))

\* The example's predicate, capturing n: |x| ((x * x) - n).abs() > 1e-8
Residual(n, x) == F64Gt(F64Abs(F64Sub(F64Mul(x, x), n)), Tolerance)

\* A take_while predicate of a client, |x| ...
Pred(p, x) ==
    CASE p.op = "residual" -> Residual(p.n, x)
      [] p.op = "lt" -> x < p.k
      [] p.op = "ne" -> x # p.k
      [] p.op = "ge" -> x >= p.k

---------------------------------------------------------------------------
(* Unfold<T, F>                                                            *)
(*                                                                         *)
(* [curr, func] are the struct's fields; applied is instrumentation: the   *)
(* arguments func has been called with, in call order.                     *)

\* Faulty variant of Unfold::new (sensitivity of C9): applies func on
\* construction.
UnfoldNewEager(function, init) ==
    LET r == Call(function, init)
    IN  [kind |-> "Unfold", curr |-> IF r.panic THEN init ELSE r.val,
         func |-> function, applied |-> <<init>>]

\* Unfold::new
UnfoldNew(function, init) ==
    [kind |-> "Unfold", curr |-> init, func |-> function, applied |-> <<>>]

\* unfold
unfold(func, init) == UnfoldNew(func, init)

\* self after func was called with self.curr.
Called(self) == [self EXCEPT !.applied = Append(@, self.curr)]

\* Faulty variant of next (sensitivity of C1): returns the advanced value.
UnfoldAdvanceReturnsNew(self, r) ==
    IF r.panic THEN [panic |-> TRUE, why |-> r.why, self |-> Called(self)]
    ELSE [panic |-> FALSE, ret |-> Some(r.val),
          self |-> [Called(self) EXCEPT !.curr = r.val]]

\* Faulty variant of next (sensitivity of C5): ends at a fixpoint of func.
UnfoldAdvanceStopsAtFixpoint(self, r) ==
    IF r.panic THEN [panic |-> TRUE, why |-> r.why, self |-> Called(self)]
    ELSE [panic |-> FALSE,
          ret |-> IF r.val = self.curr THEN None ELSE Some(self.curr),
          self |-> [Called(self) EXCEPT !.curr = r.val]]

\* The body of next, r being the outcome of (self.func)(self.curr):
\*     let tmp = self.curr; self.curr = r; Some(tmp)
UnfoldAdvance(self, r) ==
    IF r.panic THEN [panic |-> TRUE, why |-> r.why, self |-> Called(self)]
    ELSE [panic |-> FALSE, ret |-> Some(self.curr),
          self |-> [Called(self) EXCEPT !.curr = r.val]]

\* <Unfold as Iterator>::next
UnfoldNext(self) == UnfoldAdvance(self, Call(self.func, self.curr))

---------------------------------------------------------------------------
(* The standard adapters the crate composes Unfold with.                   *)

\* Iterator::take
Take(it, n) == [kind |-> "Take", iter |-> it, n |-> n]

\* self after the inner next ended as r, and the outcome passed on.
TakeInner(self, r) ==
    IF r.panic
    THEN [panic |-> TRUE, why |-> r.why,
          self |-> [self EXCEPT !.n = @ - 1, !.iter = r.self]]
    ELSE [panic |-> FALSE, ret |-> r.ret,
          self |-> [self EXCEPT !.n = @ - 1, !.iter = r.self]]

\* Faulty variant of Take::next (sensitivity of C4): yields n + 1 values.
TakeNextInclusive(self) ==
    IF self.n >= 0 THEN TakeInner(self, UnfoldNext(self.iter))
    ELSE [panic |-> FALSE, ret |-> None, self |-> self]

\* Faulty variant of Take::next (sensitivity of C6): changes n when exhausted.
TakeNextDecrementAlways(self) ==
    IF self.n # 0 THEN TakeInner(self, UnfoldNext(self.iter))
    ELSE [panic |-> FALSE, ret |-> None, self |-> [self EXCEPT !.n = @ - 1]]

\* Faulty variant of Take::next (sensitivity of C10): pulls the inner
\* iterator before testing n.
TakePullThenCheck(self, r) ==
    IF r.panic
    THEN [panic |-> TRUE, why |-> r.why, self |-> [self EXCEPT !.iter = r.self]]
    ELSE IF self.n # 0
    THEN [panic |-> FALSE, ret |-> r.ret,
          self |-> [self EXCEPT !.n = @ - 1, !.iter = r.self]]
    ELSE [panic |-> FALSE, ret |-> None, self |-> [self EXCEPT !.iter = r.self]]

TakeNextPullThenCheck(self) == TakePullThenCheck(self, UnfoldNext(self.iter))

\* <Take<Unfold> as Iterator>::next:
\*     if self.n != 0 { self.n -= 1; self.iter.next() } else { None }
TakeNext(self) ==
    IF self.n # 0 THEN TakeInner(self, UnfoldNext(self.iter))
    ELSE [panic |-> FALSE, ret |-> None, self |-> self]

\* Iterator::take_while
TakeWhile(it, p) == [kind |-> "TakeWhile", iter |-> it, flag |-> FALSE, pred |-> p]

\* Faulty variant of TakeWhile::next (sensitivity of C7): also yields the
\* first element that fails the predicate.
TakeWhileInnerInclusive(self, r) ==
    IF r.panic
    THEN [panic |-> TRUE, why |-> r.why, self |-> [self EXCEPT !.iter = r.self]]
    ELSE IF ~r.ret.some
    THEN [panic |-> FALSE, ret |-> None, self |-> [self EXCEPT !.iter = r.self]]
    ELSE IF Pred(self.pred, r.ret.val)
    THEN [panic |-> FALSE, ret |-> r.ret, self |-> [self EXCEPT !.iter = r.self]]
    ELSE [panic |-> FALSE, ret |-> r.ret,
          self |-> [self EXCEPT !.iter = r.self, !.flag = TRUE]]

\* self after the inner next ended as r, and the item that passes the
\* predicate; the first item that fails it sets the flag.
TakeWhileInner(self, r) ==
    IF r.panic
    THEN [panic |-> TRUE, why |-> r.why, self |-> [self EXCEPT !.iter = r.self]]
    ELSE IF ~r.ret.some
    THEN [panic |-> FALSE, ret |-> None, self |-> [self EXCEPT !.iter = r.self]]
    ELSE IF Pred(self.pred, r.ret.val)
    THEN [panic |-> FALSE, ret |-> r.ret, self |-> [self EXCEPT !.iter = r.self]]
    ELSE [panic |-> FALSE, ret |-> None,
          self |-> [self EXCEPT !.iter = r.self, !.flag = TRUE]]

\* <TakeWhile<Take<Unfold>> as Iterator>::next:
\*     if self.flag { None } else { let x = self.iter.next()?;
\*         if (self.predicate)(&x) { Some(x) } else { self.flag = true; None } }
TakeWhileNext(self) ==
    IF self.flag THEN [panic |-> FALSE, ret |-> None, self |-> self]
    ELSE TakeWhileInner(self, TakeNext(self.iter))

\* Static dispatch of Iterator::next on the adapter's type.
IterNext(it) ==
    CASE it.kind = "Unfold"    -> UnfoldNext(it)
      [] it.kind = "Take"      -> TakeNext(it)
      [] it.kind = "TakeWhile" -> TakeWhileNext(it)

---------------------------------------------------------------------------
(* The standard consumers.                                                 *)

RECURSIVE Collect(_, _)
\* The loop of collect after a next that ended as r.
Collected(vec, r) ==
    IF r.panic THEN [panic |-> TRUE, why |-> r.why, iter |-> r.self]
    ELSE IF r.ret.some THEN Collect(r.self, Append(vec, r.ret.val))
    ELSE [panic |-> FALSE, val |-> vec, iter |-> r.self]

\* Iterator::collect::<Vec<T>>: push every item until next returns None.
Collect(it, vec) == Collected(vec, IterNext(it))

RECURSIVE LastLoop(_, _)
\* The loop of last, fold(None, |_, x| Some(x)): acc is the last item so
\* far and r the outcome of the next call of next.
LastLoop(acc, r) ==
    CASE r.panic -> [panic |-> TRUE, why |-> r.why, iter |-> r.self]
      [] ~r.panic /\ r.ret.some -> LastLoop(r.ret, IterNext(r.self))
      [] OTHER -> [panic |-> FALSE, val |-> acc, iter |-> r.self]

\* Iterator::last: the last item before next returns None.
Last(it, acc) == LastLoop(acc, IterNext(it))

\* Option::unwrap on the outcome of a consumer: panics on None.
Unwrap(o) ==
    IF o.panic THEN o
    ELSE IF o.val.some THEN [o EXCEPT !.val = o.val.val]
    ELSE [panic |-> TRUE, why |-> "unwrap", iter |-> o.iter]

---------------------------------------------------------------------------
(* The crate's front-ends and the example's composition.                   *)

\* unfold_vector
UnfoldVector(func, init, len) == Collect(Take(unfold(func, init), len), <<>>)

\* Faulty variant of unfold_nth (sensitivity of C2): zero-based index.
UnfoldNthZeroBased(func, init, index) ==
    Unwrap(Last(Take(unfold(func, init), index + 1), None))

\* unfold_nth
UnfoldNth(func, init, index) ==
    Unwrap(Last(Take(unfold(func, init), index), None))

\* unfold_count
UnfoldCount(func, init, count) == Take(unfold(func, init), count)

\* unfold_count(f, i, count).take_while(p).last()
CountTakeWhileLast(func, init, count, p) ==
    Last(TakeWhile(UnfoldCount(func, init, count), p), None)

\* No iterator: the caller holds none, or the call built none.
NoIter == [kind |-> "none"]

\* The example's cap on the number of iterations.
SqrtCap == 100

\* unfold_sqrt of the example
UnfoldSqrt(n) ==
    IF F64Lt(n, F64Zero) THEN [panic |-> FALSE, val |-> None, iter |-> NoIter]
    ELSE IF n = F64FromInt(1) \/ n = F64Zero
    THEN [panic |-> FALSE, val |-> Some(n), iter |-> NoIter]
    ELSE CountTakeWhileLast([op |-> "newton", n |-> n], n, SqrtCap,
                            [op |-> "residual", n |-> n])

---------------------------------------------------------------------------
(* Inputs                                                                  *)

Closures == [op : {"inc", "inc2", "dbl", "dec"}, checks : BOOLEAN]
Inits == (0..3) \cup {Modulus \div 2 - 1, Modulus \div 2} \cup ((MaxT - 2)..MaxT)
Lens == 0..MaxLen
Preds == [op : {"lt", "ne", "ge"}, k : {1, 2, 3, MaxT}]
NoPred == [op |-> "none", k |-> 0]

\* Largest root whose square the example is called with (its test's range).
MaxRoot == 10
SqrtInputs == {-1, 2, 3} \cup {i * i : i \in 0..MaxRoot}

Calls ==
    [api : {"unfold_sqrt"}, func : {[op |-> "none"]},
     init : {F64FromInt(k) : k \in SqrtInputs}, len : {0}, pred : {NoPred}]
    \cup
    [api : {"unfold"}, func : Closures, init : Inits, len : {0}, pred : {NoPred}]
    \cup [api : {"unfold_count", "unfold_vector", "unfold_nth"},
          func : Closures, init : Inits, len : Lens, pred : {NoPred}]
    \cup [api : {"take_while_last"},
          func : Closures, init : Inits, len : Lens, pred : Preds]

Pending == [panic |-> FALSE, pending |-> TRUE]

\* The caller holds the iterator the constructor returned, or is about to
\* call a front-end function.
Init ==
    /\ call \in Calls
    /\ iter = CASE call.api = "unfold" -> unfold(call.func, call.init)
               [] call.api = "unfold_count" ->
                      UnfoldCount(call.func, call.init, call.len)
               [] OTHER -> NoIter
    /\ out = <<>>
    /\ result = Pending
    /\ pc = IF call.api \in {"unfold", "unfold_count"} THEN "running" ELSE "start"
    /\ pulls = 0

---------------------------------------------------------------------------
(* Operations                                                              *)

\* The effect on the caller's state of a pull that ended as r.
Pulled(r) ==
    /\ iter' = r.self
    /\ pulls' = pulls + 1
    /\ IF r.panic
       THEN pc' = "panicked" /\ out' = out /\ result' = r
       ELSE pc' = pc /\ out' = Append(out, r.ret) /\ UNCHANGED result
    /\ UNCHANGED call

\* The caller of unfold / Unfold::new pulls the endless iterator.
PullUnfold ==
    /\ pc = "running"
    /\ call.api = "unfold"
    /\ pulls < MaxPulls
    /\ Pulled(UnfoldNext(iter))

\* The caller of unfold_count pulls the iterator it returned.
PullCount ==
    /\ pc = "running"
    /\ call.api = "unfold_count"
    /\ pulls < MaxPulls
    /\ Pulled(TakeNext(iter))

\* The effect of a front-end call that ran to its return or to a panic.
Returned(r) ==
    /\ result' = r
    /\ iter' = r.iter
    /\ pc' = IF r.panic THEN "panicked" ELSE "returned"
    /\ UNCHANGED <<call, out, pulls>>

CallUnfoldVector ==
    /\ pc = "start"
    /\ call.api = "unfold_vector"
    /\ Returned(UnfoldVector(call.func, call.init, call.len))

CallUnfoldNth ==
    /\ pc = "start"
    /\ call.api = "unfold_nth"
    /\ Returned(UnfoldNth(call.func, call.init, call.len))

CallTakeWhileLast ==
    /\ pc = "start"
    /\ call.api = "take_while_last"
    /\ Returned(CountTakeWhileLast(call.func, call.init, call.len, call.pred))

\* The example's main or test calls unfold_sqrt(n).
CallUnfoldSqrt ==
    /\ pc = "start"
    /\ call.api = "unfold_sqrt"
    /\ Returned(UnfoldSqrt(call.init))

Next ==
    \/ PullUnfold
    \/ PullCount
    \/ CallUnfoldVector
    \/ CallUnfoldNth
    \/ CallTakeWhileLast
    \/ CallUnfoldSqrt

Spec == Init /\ [][Next]_vars

---------------------------------------------------------------------------
(* The sequence i, f(i), f(f(i)), ... that the claims refer to.            *)

RECURSIVE Iterate(_, _, _)
\* The outcome of another application of func after the outcome p.
IterateStep(func, p) == IF p.panic THEN p ELSE Call(func, p.val)

\* func applied k times to x: [panic |-> FALSE, val |-> f^k(x)], or a panic
\* if one of the k applications panics.
Iterate(func, k, x) ==
    IF k = 0 THEN [panic |-> FALSE, val |-> x]
    ELSE IterateStep(func, Iterate(func, k - 1, x))

\* f^k(i) for the call's arguments
Elem(k) == Iterate(call.func, k, call.init).val

\* func is defined on i, f(i), ..., f^(k-1)(i)
TotalUpTo(k) == ~Iterate(call.func, k, call.init).panic

Min(a, b) == IF a < b THEN a ELSE b

\* The Unfold at the bottom of the iterator the call built or holds.
Generator ==
    CASE iter.kind = "Unfold" -> iter
      [] iter.kind = "Take" -> iter.iter
      [] iter.kind = "TakeWhile" -> iter.iter.iter

\* |a - b| as f64
F64Dist(a, b) == F64Abs(F64Sub(a, b))

\* The f64 literals 1e-8 and 1e-4, and 10.0 and 100.0
Eps8 == F64Div(F64FromInt(1), F64FromInt(10 ^ 8))
Eps4 == F64Div(F64FromInt(1), F64FromInt(10 ^ 4))
Ten == F64FromInt(10)
Hundred == F64FromInt(100)

---------------------------------------------------------------------------
(* Claims                                                                  *)

\* C1: for a transform that is total on the values it is applied to,
\* unfold_vector(f, i, n) returns, and returns a vector of length exactly n
\* whose k-th element (0 <= k < n) is f applied k times to i; for n = 0 the
\* vector is empty.
C1_VectorIsPrefix ==
    (call.api = "unfold_vector" /\ pc # "start" /\ TotalUpTo(call.len))
    => /\ pc = "returned"
       /\ Len(result.val) = call.len
       /\ \A k \in 0..(call.len - 1) : result.val[k + 1] = Elem(k)

C1_Witness ==
    /\ call.api = "unfold_vector"
    /\ pc = "returned"
    /\ call.len >= 3
    /\ result.val[3] # result.val[1]

\* C2: for a total transform and index n >= 1, unfold_nth(f, i, n) returns f
\* applied n - 1 times to i, which is the last element of
\* unfold_vector(f, i, n).
C2_NthIsElement ==
    (call.api = "unfold_nth" /\ pc # "start" /\ call.len >= 1
        /\ TotalUpTo(call.len))
    => /\ pc = "returned"
       /\ result.val = Elem(call.len - 1)
       /\ ~UnfoldVector(call.func, call.init, call.len).panic
       /\ result.val = UnfoldVector(call.func, call.init, call.len).val[call.len]

C2_Witness ==
    /\ call.api = "unfold_nth"
    /\ pc = "returned"
    /\ call.len >= 2
    /\ result.val # call.init

\* C3: unfold_nth(f, i, 0) ends with a recoverable error, not with a panic.
C3_NthZeroDoesNotPanic ==
    (call.api = "unfold_nth" /\ call.len = 0) => pc # "panicked"

\* C4: for a total transform, the pulls on unfold_count(f, i, n) yield the
\* n elements of unfold_vector(f, i, n), in order, and pull n + 1 returns
\* None, not an error; with n = 0 the first pull returns None.
C4_CountYieldsVector ==
    (call.api = "unfold_count" /\ TotalUpTo(call.len))
    => /\ pc = "running"
       /\ Len(out) = pulls
       /\ ~UnfoldVector(call.func, call.init, call.len).panic
       /\ \A k \in 1..Len(out) :
             /\ k <= call.len =>
                  out[k] = Some(UnfoldVector(call.func, call.init, call.len).val[k])
             /\ k = call.len + 1 => out[k] = None

C4_Witness ==
    /\ call.api = "unfold_count"
    /\ call.len >= 2
    /\ Len(out) = call.len + 1
    /\ out[call.len].some /\ out[call.len] # out[1]
    /\ out[call.len + 1] = None

\* C5: Unfold::next never returns None: every pull on the raw generator
\* returned Some, and with a total transform every pull returns.
C5_UnfoldNeverEnds ==
    call.api = "unfold"
    => /\ \A k \in 1..Len(out) : out[k].some
       /\ TotalUpTo(pulls) => (pc = "running" /\ Len(out) = pulls)

C5_Witness ==
    /\ call.api = "unfold"
    /\ pc = "running"
    /\ Len(out) = MaxPulls

\* The iterator of unfold_count has yielded its count of values.
Exhausted ==
    /\ call.api = "unfold_count"
    /\ Cardinality({k \in 1..Len(out) : out[k].some}) = call.len

\* C6: once the iterator of unfold_count has yielded count values, every
\* later pull returns None and leaves it exhausted and unchanged.
C6_ExhaustedIsTerminal ==
    [][Exhausted => /\ Exhausted'
                    /\ out' = Append(out, None)
                    /\ iter' = iter
                    /\ pc' = "running"]_vars

C6_Witness ==
    /\ call.api = "unfold_count"
    /\ call.len >= 1
    /\ Len(out) = call.len + 2
    /\ out[call.len].some
    /\ out[call.len + 2] = None

\* The length of the longest prefix of i, f(i), ..., f^(len-1)(i) whose
\* elements all satisfy the call's predicate.
PrefixLen ==
    CHOOSE j \in 0..call.len :
        /\ \A k \in 0..(j - 1) : Pred(call.pred, Elem(k))
        /\ j = call.len \/ ~Pred(call.pred, Elem(j))

\* C7: unfold_count(f, i, count).take_while(p).last() returns the last
\* element of the longest prefix of i, f(i), ..., f^(count-1)(i) whose
\* elements all satisfy p, and None when that prefix is empty.
C7_TakeWhileLast ==
    (call.api = "take_while_last" /\ pc # "start" /\ TotalUpTo(call.len))
    => /\ pc = "returned"
       /\ result.val = IF PrefixLen = 0 THEN None ELSE Some(Elem(PrefixLen - 1))

C7_Witness ==
    /\ call.api = "take_while_last"
    /\ pc = "returned"
    /\ iter.flag
    /\ result.val.some
    /\ result.val.val # call.init

\* C8 as stated: unfold_sqrt(100.0) is within 1e-8 of 10.0.
C8_SqrtWithin1e8 ==
    (call.api = "unfold_sqrt" /\ call.init = Hundred /\ pc = "returned")
    => /\ result.val.some
       /\ F64Lt(F64Dist(result.val.val, Ten), Eps8)

\* C8 as amended: unfold_sqrt(100.0) is the last iterate whose residual
\* |x * x - 100| still exceeds 1e-8, and it is within 1e-4 of 10.0.
C8_SqrtWithin1e4 ==
    (call.api = "unfold_sqrt" /\ call.init = Hundred /\ pc # "start")
    => /\ pc = "returned"
       /\ result.val.some
       /\ Residual(Hundred, result.val.val)
       /\ F64Lt(F64Dist(result.val.val, Ten), Eps4)

C8_Witness ==
    /\ call.api = "unfold_sqrt"
    /\ call.init = Hundred
    /\ pc = "returned"
    /\ result.val.some
    /\ F64Gt(F64Dist(result.val.val, Ten), Eps8)

\* C9: after Unfold::new(f, i) and k pulls, curr is f applied k times to i,
\* and pull j returned f applied j - 1 times to i; new applies f to nothing.
C9_CurrIsNextValue ==
    (call.api = "unfold" /\ pc = "running")
    => /\ iter.curr = Elem(pulls)
       /\ \A j \in 1..Len(out) : out[j] = Some(Elem(j - 1))
       /\ pulls = 0 => (iter.curr = call.init /\ iter.applied = <<>>)

C9_Witness ==
    /\ call.api = "unfold"
    /\ pc = "running"
    /\ pulls >= 2
    /\ iter.curr # call.init
    /\ out[2] # out[1]

\* C10: every pull that reaches the generator applies the transform once,
\* to the value it returns: p pulls on unfold_count(f, i, count) have
\* applied it min(p, count) times; unfold_vector and unfold_nth apply it n
\* times, to f^0(i) .. f^(n-1)(i), and panic if it fails on f^(n-1)(i).
C10_Applications ==
    /\ call.api \in {"unfold", "unfold_count"} =>
          /\ Len(Generator.applied) =
                 IF call.api = "unfold" THEN pulls ELSE Min(pulls, call.len)
          /\ \A k \in 1..Len(out) :
                 out[k].some => Generator.applied[k] = out[k].val
    /\ (call.api \in {"unfold_vector", "unfold_nth"} /\ pc # "start"
          /\ TotalUpTo(call.len)) =>
          /\ Len(Generator.applied) = call.len
          /\ \A k \in 1..call.len : Generator.applied[k] = Elem(k - 1)
    /\ (call.api \in {"unfold_vector", "unfold_nth"} /\ pc # "start"
          /\ call.len >= 1 /\ TotalUpTo(call.len - 1)
          /\ ~TotalUpTo(call.len)) =>
          /\ pc = "panicked"
          /\ result.why = "overflow"
          /\ Len(Generator.applied) = call.len

C10_Witness ==
    /\ call.api = "unfold_vector"
    /\ pc = "panicked"
    /\ call.len >= 2
    /\ TotalUpTo(call.len - 1)
    /\ Len(Generator.applied) = call.len

====
